---- MODULE Spec2Model ----
(***************************************************************************)
(* Model of the chat component of YewChat (src/components/chat.rs): the    *)
(* Chat component's state, its create/update handlers and its view-side    *)
(* roster lookup, together with the serde_json conversions they rely on.  *)
(*                                                                         *)
(* Text.  A Rust String is modelled as a sequence of lexemes.  A lexeme is *)
(* a punctuation mark, a bare word, or a quoted string literal whose       *)
(* content is again a text.  JSON documents are therefore real token       *)
(* sequences that have to be parsed, and a string literal can carry a      *)
(* nested JSON document (the second serialization layer of the protocol).  *)
(***************************************************************************)
EXTENDS Integers, Sequences, FiniteSets, TLC

VARIABLES
    pc,          \* position of the component: "create_send", "create_self", "render",
                 \* "active", "panicked", "closed"
    username,    \* user.username taken from the User context
    users,       \* Chat.users: Vec<UserProfile>
    messages,    \* Chat.messages: Vec<MessageData>
    chat_input,  \* Chat.chat_input: NodeRef and the value of the input element
    producer,    \* Chat._producer: TRUE while the EventBus bridge exists
    tx,          \* every try_send on wss.tx, in order: [frame, ok]
    frames,      \* every string handed to Msg::HandleMsg, in order
    submits,     \* number of Msg::SubmitMessage handled
    ret          \* what the last call of update returned

vars == <<pc, username, users, messages, chat_input, producer, tx, frames, submits, ret>>

----------------------------------------------------------------------------
(* Bounds of the model *)

MaxFrames == 3
MaxSubmits == 2
MaxEvents == 3

----------------------------------------------------------------------------
(* Text *)

P(c) == [k |-> "p", s |-> c, t |-> <<>>]
W(w) == [k |-> "w", s |-> w, t |-> <<>>]
Q(text) == [k |-> "q", s |-> "", t |-> text]
Str(w) == <<W(w)>>
EmptyStr == <<>>

Numerals == {"0", "1", "42"}

----------------------------------------------------------------------------
(* Option<T> *)

None == [some |-> FALSE, v |-> <<>>]
Some(x) == [some |-> TRUE, v |-> x]

----------------------------------------------------------------------------
(* serde_json: text -> JSON value *)

JNull == [ty |-> "null", str |-> <<>>, items |-> <<>>, keys |-> <<>>]
JBool == [ty |-> "bool", str |-> <<>>, items |-> <<>>, keys |-> <<>>]
JNumber == [ty |-> "num", str |-> <<>>, items |-> <<>>, keys |-> <<>>]
JString(text) == [ty |-> "str", str |-> text, items |-> <<>>, keys |-> <<>>]
JArray(vs) == [ty |-> "arr", str |-> <<>>, items |-> vs, keys |-> <<>>]
JObject(ks, vs) == [ty |-> "obj", str |-> <<>>, items |-> vs, keys |-> ks]

ParseErr == [ok |-> FALSE, val |-> JNull, next |-> 0]
ParseOk(v, n) == [ok |-> TRUE, val |-> v, next |-> n]

RECURSIVE ParseValue(_, _)
RECURSIVE ParseElems(_, _, _)
RECURSIVE ParseMembers(_, _, _, _)

ParseValue(toks, i) ==
    IF i > Len(toks) THEN ParseErr
    ELSE LET t == toks[i] IN
         IF t.k = "q" THEN ParseOk(JString(t.t), i + 1)
         ELSE IF t.k = "w" THEN
             IF t.s = "null" THEN ParseOk(JNull, i + 1)
             ELSE IF t.s \in {"true", "false"} THEN ParseOk(JBool, i + 1)
             ELSE IF t.s \in Numerals THEN ParseOk(JNumber, i + 1)
             ELSE ParseErr
         ELSE IF t.s = "[" THEN
             IF i + 1 <= Len(toks) /\ toks[i + 1] = P("]")
             THEN ParseOk(JArray(<<>>), i + 2)
             ELSE ParseElems(toks, i + 1, <<>>)
         ELSE IF t.s = "{" THEN
             IF i + 1 <= Len(toks) /\ toks[i + 1] = P("}")
             THEN ParseOk(JObject(<<>>, <<>>), i + 2)
             ELSE ParseMembers(toks, i + 1, <<>>, <<>>)
         ELSE ParseErr

ParseElems(toks, i, acc) ==
    LET r == ParseValue(toks, i) IN
    IF ~r.ok \/ r.next > Len(toks) THEN ParseErr
    ELSE IF toks[r.next] = P(",") THEN ParseElems(toks, r.next + 1, Append(acc, r.val))
    ELSE IF toks[r.next] = P("]") THEN ParseOk(JArray(Append(acc, r.val)), r.next + 1)
    ELSE ParseErr

ParseMembers(toks, i, ks, vs) ==
    IF i + 1 > Len(toks) \/ toks[i].k # "q" \/ toks[i + 1] # P(":") THEN ParseErr
    ELSE LET r == ParseValue(toks, i + 2) IN
         IF ~r.ok \/ r.next > Len(toks) THEN ParseErr
         ELSE IF toks[r.next] = P(",")
              THEN ParseMembers(toks, r.next + 1, Append(ks, toks[i].t), Append(vs, r.val))
         ELSE IF toks[r.next] = P("}")
              THEN ParseOk(JObject(Append(ks, toks[i].t), Append(vs, r.val)), r.next + 1)
         ELSE ParseErr

\* A whole document: one value and no trailing characters.
ParseDoc(text) ==
    LET r == ParseValue(text, 1) IN
    IF r.ok /\ r.next = Len(text) + 1 THEN r ELSE ParseErr

----------------------------------------------------------------------------
(* serde derive: JSON value -> typed value *)

KeyIdx(obj, key) == {i \in 1..Len(obj.keys) : obj.keys[i] = key}
KnownOnce(obj, fields) == \A f \in fields : Cardinality(KeyIdx(obj, f)) <= 1
Has(obj, key) == KeyIdx(obj, key) # {}
Get(obj, key) == obj.items[CHOOSE i \in KeyIdx(obj, key) : TRUE]

DeErr == [ok |-> FALSE, val |-> <<>>]
DeOk(v) == [ok |-> TRUE, val |-> v]

\* String
DeString(j) == IF j.ty = "str" THEN DeOk(j.str) ELSE DeErr

\* Option<String>
DeOptString(j) ==
    IF j.ty = "null" THEN DeOk(None)
    ELSE IF j.ty = "str" THEN DeOk(Some(j.str))
    ELSE DeErr

\* Option<Vec<String>>
DeOptVecString(j) ==
    IF j.ty = "null" THEN DeOk(None)
    ELSE IF j.ty = "arr" /\ \A i \in 1..Len(j.items) : j.items[i].ty = "str"
         THEN DeOk(Some([i \in 1..Len(j.items) |-> j.items[i].str]))
    ELSE DeErr

MsgTypesWire_Swapped(ty) ==
    CASE ty = "Users" -> Str("register")
      [] ty = "Register" -> Str("users")
      [] ty = "Message" -> Str("message")

\* #[serde(rename_all = "lowercase")] enum MsgTypes
MsgTypesWire(ty) ==
    CASE ty = "Users" -> Str("users")
      [] ty = "Register" -> Str("register")
      [] ty = "Message" -> Str("message")

MsgTypesVariants == {"Users", "Register", "Message"}

VariantOf(text) ==
    IF \E ty \in MsgTypesVariants : MsgTypesWire(ty) = text
    THEN DeOk(CHOOSE ty \in MsgTypesVariants : MsgTypesWire(ty) = text)
    ELSE DeErr

\* A unit variant is written as its name, or as a one-entry map to null.
DeMsgTypes(j) ==
    IF j.ty = "str" THEN VariantOf(j.str)
    ELSE IF j.ty = "obj" /\ Len(j.keys) = 1 /\ j.items[1].ty = "null" THEN VariantOf(j.keys[1])
    ELSE DeErr

WebSocketMessage(mt, da, d) == [message_type |-> mt, data_array |-> da, data |-> d]

\* #[serde(rename_all = "camelCase")] struct WebSocketMessage
DeWebSocketMessageParts(mt, da, d) ==
    IF mt.ok /\ da.ok /\ d.ok THEN DeOk(WebSocketMessage(mt.val, da.val, d.val)) ELSE DeErr

DeWebSocketMessage(j) ==
    IF j.ty = "obj" THEN
        IF ~KnownOnce(j, {Str("messageType"), Str("dataArray"), Str("data")})
           \/ ~Has(j, Str("messageType"))
        THEN DeErr
        ELSE DeWebSocketMessageParts(
                DeMsgTypes(Get(j, Str("messageType"))),
                IF Has(j, Str("dataArray")) THEN DeOptVecString(Get(j, Str("dataArray"))) ELSE DeOk(None),
                IF Has(j, Str("data")) THEN DeOptString(Get(j, Str("data"))) ELSE DeOk(None))
    ELSE IF j.ty = "arr" /\ Len(j.items) = 3 THEN
        DeWebSocketMessageParts(DeMsgTypes(j.items[1]), DeOptVecString(j.items[2]),
                                DeOptString(j.items[3]))
    ELSE DeErr

MessageData(f, m) == [from |-> f, message |-> m]

\* struct MessageData
DeMessageDataParts(f, m) ==
    IF f.ok /\ m.ok THEN DeOk(MessageData(f.val, m.val)) ELSE DeErr

DeMessageData(j) ==
    IF j.ty = "obj" THEN
        IF ~KnownOnce(j, {Str("from"), Str("message")})
           \/ ~Has(j, Str("from")) \/ ~Has(j, Str("message"))
        THEN DeErr
        ELSE DeMessageDataParts(DeString(Get(j, Str("from"))), DeString(Get(j, Str("message"))))
    ELSE IF j.ty = "arr" /\ Len(j.items) = 2 THEN
        DeMessageDataParts(DeString(j.items[1]), DeString(j.items[2]))
    ELSE DeErr

\* serde_json::from_str::<WebSocketMessage>
FromStrWebSocketMessage(s) ==
    LET r == ParseDoc(s) IN IF r.ok THEN DeWebSocketMessage(r.val) ELSE DeErr

\* serde_json::from_str::<MessageData>
FromStrMessageData(s) ==
    LET r == ParseDoc(s) IN IF r.ok THEN DeMessageData(r.val) ELSE DeErr

----------------------------------------------------------------------------
(* serde_json: typed value -> text *)

RECURSIVE SerStrings(_)
SerStrings(v) ==
    IF v = <<>> THEN <<>>
    ELSE IF Len(v) = 1 THEN <<Q(v[1])>>
    ELSE <<Q(v[1]), P(",")>> \o SerStrings(Tail(v))

SerOptString(o) == IF o.some THEN <<Q(o.v)>> ELSE <<W("null")>>
SerOptVecString(o) ==
    IF o.some THEN <<P("[")>> \o SerStrings(o.v) \o <<P("]")>> ELSE <<W("null")>>

\* serde_json::to_string(&WebSocketMessage)
ToStringWebSocketMessage(m) ==
    <<P("{"), Q(Str("messageType")), P(":"), Q(MsgTypesWire(m.message_type)), P(","),
      Q(Str("dataArray")), P(":")>> \o SerOptVecString(m.data_array) \o
    <<P(","), Q(Str("data")), P(":")>> \o SerOptString(m.data) \o <<P("}")>>

----------------------------------------------------------------------------
(* Inputs: the user context, what the user types, what the server pushes *)

Usernames == {Str("a")}
Texts == {EmptyStr, Str("hi")}

\* The server's encoding of a chat message, carried in the data field.
ChatMessageText(f, m) ==
    <<P("{"), Q(Str("from")), P(":"), Q(f), P(","), Q(Str("message")), P(":"), Q(m), P("}")>>

FrameUsers(names) == ToStringWebSocketMessage(WebSocketMessage("Users", Some(names), None))
FrameMessage(f, m) ==
    ToStringWebSocketMessage(WebSocketMessage("Message", None, Some(ChatMessageText(f, m))))
FrameRegister == ToStringWebSocketMessage(WebSocketMessage("Register", None, Some(Str("b"))))
FrameRegisterFull ==
    <<P("{"), Q(Str("messageType")), P(":"), Q(Str("register")), P(","),
      Q(Str("dataArray")), P(":"), P("["), Q(Str("a")), P("]"), P(","),
      Q(Str("data")), P(":"), Q(Str("b")), P("}")>>
FrameUsersNull ==
    <<P("{"), Q(Str("messageType")), P(":"), Q(Str("users")), P(","),
      Q(Str("dataArray")), P(":"), W("null"), P(","),
      Q(Str("data")), P(":"), W("null"), P("}")>>
FrameUsersNoArray == <<P("{"), Q(Str("messageType")), P(":"), Q(Str("users")), P("}")>>
FramePing ==
    <<P("{"), Q(Str("messageType")), P(":"), Q(Str("ping")), P(","),
      Q(Str("data")), P(":"), W("null"), P("}")>>
FrameNotJson == <<P("{"), Q(Str("messageType"))>>
FrameNotEnvelope == <<P("{"), Q(Str("data")), P(":"), Q(Str("x")), P("}")>>
FrameMessageNoData == <<P("{"), Q(Str("messageType")), P(":"), Q(Str("message")), P("}")>>
FrameMessageRawData ==
    ToStringWebSocketMessage(WebSocketMessage("Message", None, Some(Str("hi"))))

ValidFrames ==
    { FrameUsers(<<Str("a"), Str("b")>>),
      FrameUsers(<<Str("a"), Str("a")>>), FrameUsersNoArray,
      FrameMessage(Str("a"), Str("hi")), FrameMessage(Str("c"), Str("yo")),
      FrameRegister, FrameRegisterFull, FrameUsersNull }

Frames ==
    ValidFrames \cup
    { FramePing, FrameNotJson, FrameNotEnvelope, FrameMessageNoData, FrameMessageRawData }

----------------------------------------------------------------------------
(* The component *)

UserProfile_Seeded(u) ==
    [name |-> u,
     avatar |-> <<W("https://avatars.dicebear.com/api/adventurer-neutral/")>> \o u
                \o (IF messages = <<>> THEN <<>> ELSE <<W("-1")>>) \o <<W(".svg")>>]

UserProfile(u) ==
    [name |-> u,
     avatar |-> <<W("https://avatars.dicebear.com/api/adventurer-neutral/")>> \o u
                \o <<W(".svg")>>]

TrySend_ReRegister(frame, ok) ==
    IF tx # <<>> /\ ~tx[1].ok
    THEN tx \o <<[frame |-> tx[1].frame, ok |-> ok], [frame |-> frame, ok |-> ok]>>
    ELSE Append(tx, [frame |-> frame, ok |-> ok])

TrySend_RetryLast(frame, ok) ==
    IF Len(tx) >= 2 /\ ~tx[Len(tx)].ok
    THEN tx \o <<[frame |-> tx[Len(tx)].frame, ok |-> ok], [frame |-> frame, ok |-> ok]>>
    ELSE Append(tx, [frame |-> frame, ok |-> ok])

\* wss.tx.clone().try_send(frame): the channel accepts the frame or rejects it.
TrySend(frame, ok) == Append(tx, [frame |-> frame, ok |-> ok])

RegisterMessage_DataArray == WebSocketMessage("Register", Some(<<username>>), None)

RegisterMessage == WebSocketMessage("Register", None, Some(username))

SubmitEnvelope_Nested(value) ==
    WebSocketMessage("Message", None, Some(ChatMessageText(EmptyStr, value)))

SubmitEnvelope(value) == WebSocketMessage("Message", None, Some(value))

UsersArm_Merge(msg) ==
    LET users_from_message == IF msg.data_array.some THEN msg.data_array.v ELSE <<>>
    IN  users \o [i \in 1..Len(users_from_message) |-> UserProfile(users_from_message[i])]

UsersArm_KeepWithoutList(msg) ==
    IF msg.data_array.some
    THEN [i \in 1..Len(msg.data_array.v) |-> UserProfile(msg.data_array.v[i])]
    ELSE users

\* MsgTypes::Users arm: the new value of self.users
UsersArm(msg) ==
    LET users_from_message == IF msg.data_array.some THEN msg.data_array.v ELSE <<>>
    IN  [i \in 1..Len(users_from_message) |-> UserProfile(users_from_message[i])]

MessageArm_Prepend(message_data) == <<message_data>> \o messages

\* MsgTypes::Message arm: the new value of self.messages
MessageArm(message_data) == Append(messages, message_data)

SubmitLog_Echo(value) == Append(messages, MessageData(username, value))

\* What Msg::SubmitMessage does to self.messages
SubmitLog(value) == messages

FallbackAvatar == <<W("https://cdn-icons-png.flaticon.com/512/4712/4712035.png")>>

Avatar_FromName(m) == UserProfile(m.from).avatar

\* Chat::view: the avatar shown next to a logged message
Avatar(m) ==
    LET found == {k \in 1..Len(users) : users[k].name = m.from} IN
    IF found # {}
    THEN users[CHOOSE k \in found : \A j \in found : k <= j].avatar
    ELSE FallbackAvatar

\* Chat::view: the avatars of the message list, in log order
ViewAvatars == [i \in 1..Len(messages) |-> Avatar(messages[i])]

ArmReturn_NoRenderOnMessage(message_type) ==
    IF message_type = "Users" THEN "true" ELSE "false"

\* The value the arm of a decoded envelope returns from update
ArmReturn(message_type) ==
    IF message_type \in {"Users", "Message"} THEN "true" ELSE "false"

\* Calls of update so far: frames handled and messages submitted
Events == Len(frames) + submits

Init ==
    /\ pc = "create_send"
    /\ username \in Usernames
    /\ users = <<>>
    /\ messages = <<>>
    /\ chat_input = [bound |-> FALSE, value |-> EmptyStr]
    /\ producer = FALSE
    /\ tx = <<>>
    /\ frames = <<>>
    /\ submits = 0
    /\ ret = "none"

\* Chat::create, up to the try_send of the Register envelope
CreateSend ==
    /\ pc = "create_send"
    /\ \E ok \in BOOLEAN : tx' = TrySend(ToStringWebSocketMessage(RegisterMessage), ok)
    /\ pc' = "create_self"
    /\ UNCHANGED <<username, users, messages, chat_input, producer, frames, submits, ret>>

\* Chat::create, the construction of Self with the EventBus bridge
CreateSelf ==
    /\ pc = "create_self"
    /\ users' = <<>>
    /\ messages' = <<>>
    /\ chat_input' = [bound |-> FALSE, value |-> EmptyStr]
    /\ producer' = TRUE
    /\ pc' = "render"
    /\ UNCHANGED <<username, tx, frames, submits, ret>>

\* Chat::view, first render: the input element is attached to chat_input
Render ==
    /\ pc = "render"
    /\ chat_input' = [bound |-> TRUE, value |-> EmptyStr]
    /\ pc' = "active"
    /\ UNCHANGED <<username, users, messages, producer, tx, frames, submits, ret>>

\* The user edits the input element
TypeText(t) ==
    /\ pc = "active"
    /\ chat_input.bound
    /\ t # chat_input.value
    /\ chat_input' = [chat_input EXCEPT !.value = t]
    /\ UNCHANGED <<pc, username, users, messages, producer, tx, frames, submits, ret>>

HandleMsg_UsersResetsLog(s) ==
    /\ pc \in {"active", "closed"}
    /\ producer
    /\ Len(frames) < MaxFrames
    /\ Events < MaxEvents
    /\ frames' = Append(frames, s)
    /\ LET msg == FromStrWebSocketMessage(s) IN
       IF ~msg.ok
       THEN /\ pc' = "panicked"
            /\ ret' = "panic"
            /\ UNCHANGED <<users, messages>>
       ELSE IF msg.val.message_type = "Users"
       THEN /\ users' = UsersArm(msg.val)
            /\ ret' = ArmReturn(msg.val.message_type)
            /\ messages' = <<>>
            /\ UNCHANGED pc
       ELSE IF msg.val.message_type = "Message"
       THEN IF ~msg.val.data.some
            THEN /\ pc' = "panicked"
                 /\ ret' = "panic"
                 /\ UNCHANGED <<users, messages>>
            ELSE LET message_data == FromStrMessageData(msg.val.data.v) IN
                 IF ~message_data.ok
                 THEN /\ pc' = "panicked"
                      /\ ret' = "panic"
                      /\ UNCHANGED <<users, messages>>
                 ELSE /\ messages' = MessageArm(message_data.val)
                      /\ ret' = ArmReturn(msg.val.message_type)
                      /\ UNCHANGED <<pc, users>>
       ELSE /\ ret' = ArmReturn(msg.val.message_type)
            /\ UNCHANGED <<pc, users, messages>>
    /\ UNCHANGED <<username, chat_input, producer, tx, submits>>

\* Chat::update, Msg::HandleMsg(s).  The EventBus hands a frame to the callback
\* of every bridge that exists, so the bridge decides whether update is called.
HandleMsg(s) ==
    /\ pc \in {"active", "closed"}
    /\ producer
    /\ Len(frames) < MaxFrames
    /\ Events < MaxEvents
    /\ frames' = Append(frames, s)
    /\ LET msg == FromStrWebSocketMessage(s) IN
       IF ~msg.ok
       THEN /\ pc' = "panicked"
            /\ ret' = "panic"
            /\ UNCHANGED <<users, messages>>
       ELSE IF msg.val.message_type = "Users"
       THEN /\ users' = UsersArm(msg.val)
            /\ ret' = ArmReturn(msg.val.message_type)
            /\ UNCHANGED <<pc, messages>>
       ELSE IF msg.val.message_type = "Message"
       THEN IF ~msg.val.data.some
            THEN /\ pc' = "panicked"
                 /\ ret' = "panic"
                 /\ UNCHANGED <<users, messages>>
            ELSE LET message_data == FromStrMessageData(msg.val.data.v) IN
                 IF ~message_data.ok
                 THEN /\ pc' = "panicked"
                      /\ ret' = "panic"
                      /\ UNCHANGED <<users, messages>>
                 ELSE /\ messages' = MessageArm(message_data.val)
                      /\ ret' = ArmReturn(msg.val.message_type)
                      /\ UNCHANGED <<pc, users>>
       ELSE /\ ret' = ArmReturn(msg.val.message_type)
            /\ UNCHANGED <<pc, users, messages>>
    /\ UNCHANGED <<username, chat_input, producer, tx, submits>>

\* Chat::update, Msg::SubmitMessage
SubmitMessage ==
    /\ pc = "active"
    /\ submits < MaxSubmits
    /\ Events < MaxEvents
    /\ IF chat_input.bound
       THEN /\ \E ok \in BOOLEAN :
                  tx' = TrySend(ToStringWebSocketMessage(SubmitEnvelope(chat_input.value)), ok)
            /\ chat_input' = [chat_input EXCEPT !.value = EmptyStr]
       ELSE UNCHANGED <<tx, chat_input>>
    /\ messages' = SubmitLog(chat_input.value)
    /\ submits' = submits + 1
    /\ ret' = "false"
    /\ UNCHANGED <<pc, username, users, producer, frames>>

Destroy_Leak ==
    /\ pc = "active"
    /\ pc' = "closed"
    /\ UNCHANGED <<username, users, messages, chat_input, producer, tx, frames, submits, ret>>

\* The component is torn down: the Chat value is dropped and with it the bridge
\* held in _producer.  What was handed to wss.tx stays handed over.
Destroy ==
    /\ pc = "active"
    /\ pc' = "closed"
    /\ producer' = FALSE
    /\ UNCHANGED <<username, users, messages, chat_input, tx, frames, submits, ret>>

Next ==
    \/ CreateSend
    \/ CreateSelf
    \/ Render
    \/ \E t \in Texts : TypeText(t)
    \/ \E s \in Frames : HandleMsg(s)
    \/ SubmitMessage
    \/ Destroy

Spec == Init /\ [][Next]_vars

----------------------------------------------------------------------------
(* Properties *)

Handled(s) == frames' = Append(frames, s)
Submitted == submits' # submits
Envelope(s) == FromStrWebSocketMessage(s)
IsPrefix(a, b) == Len(a) <= Len(b) /\ \A i \in 1..Len(a) : a[i] = b[i]
Names(roster) == [i \in 1..Len(roster) |-> roster[i].name]

\* The envelope shape of the wire protocol: an object with a string messageType,
\* data a string or null, dataArray a list of strings or null.
EnvelopeShape(j) ==
    /\ j.ty = "obj"
    /\ Has(j, Str("messageType")) /\ Get(j, Str("messageType")).ty = "str"
    /\ Has(j, Str("data")) => DeOptString(Get(j, Str("data"))).ok
    /\ Has(j, Str("dataArray")) => DeOptVecString(Get(j, Str("dataArray"))).ok

Malformed(s) == LET r == ParseDoc(s) IN ~r.ok \/ ~EnvelopeShape(r.val)

UnknownKind(s) ==
    LET r == ParseDoc(s) IN
    /\ r.ok /\ EnvelopeShape(r.val)
    /\ ~VariantOf(Get(r.val, Str("messageType")).str).ok

BadPayload(s) ==
    /\ Envelope(s).ok /\ Envelope(s).val.message_type = "Message"
    /\ \/ ~Envelope(s).val.data.some
       \/ ~FromStrMessageData(Envelope(s).val.data.v).ok

DecodedMessage(s) ==
    /\ Envelope(s).ok /\ Envelope(s).val.message_type = "Message"
    /\ Envelope(s).val.data.some
    /\ FromStrMessageData(Envelope(s).val.data.v).ok

\* C1: a frame that is not valid JSON or does not have the envelope shape is
\* dropped: roster and log keep their values and the session keeps running, so
\* later frames are still handled.
MalformedFrameIsolated ==
    [][\A s \in Frames : Handled(s) /\ Malformed(s) =>
          pc' = "active" /\ users' = users /\ messages' = messages]_vars

\* C2: the log is append-only: every step leaves the old log as a prefix of the
\* new one, the log grows by one exactly when a frame decoded as a Message
\* envelope with a ChatMessage payload, and the entry appended for the server's
\* frame of (from, message) is that ChatMessage, at the end.
LogAppendOnly ==
    [][/\ IsPrefix(messages, messages')
       /\ Len(messages') = Len(messages) +
             (IF \E s \in Frames : Handled(s) /\ DecodedMessage(s) THEN 1 ELSE 0)
       /\ \A f \in {Str("a"), Str("c")}, m \in {Str("hi"), Str("yo")} :
             Handled(FrameMessage(f, m)) => messages' = Append(messages, MessageData(f, m))
      ]_vars

LogAppendOnlyWitness ==
    /\ Len(messages) = 2
    /\ messages[1] = MessageData(Str("c"), Str("yo"))
    /\ messages[2] = MessageData(Str("a"), Str("hi"))
    /\ submits >= 1

\* C3: after a Users envelope with dataArray L the roster has one entry per
\* element of L, with the names of L in the same order, whatever the roster was.
RosterReplacementTotal ==
    [][/\ \A s \in Frames :
             (Handled(s) /\ Envelope(s).ok /\ Envelope(s).val.message_type = "Users"
                /\ Envelope(s).val.data_array.some)
             => Names(users') = Envelope(s).val.data_array.v
       /\ \A l \in {<<Str("a"), Str("b")>>, <<Str("a"), Str("a")>>} :
             Handled(FrameUsers(l)) => Names(users') = l
      ]_vars

RosterReplacementWitness ==
    /\ Len(frames) >= 2
    /\ frames[1] = FrameUsers(<<Str("a"), Str("b")>>)
    /\ frames[2] = FrameUsers(<<Str("a"), Str("a")>>)
    /\ Names(users) = <<Str("a"), Str("a")>>

\* C4: an envelope whose messageType is none of register/users/message leaves
\* roster and log as they were and the session running.
UnknownKindNoOp ==
    [][\A s \in Frames : Handled(s) /\ UnknownKind(s) =>
          pc' = "active" /\ users' = users /\ messages' = messages]_vars

\* C5: a Message envelope whose data is absent or is not an encoded ChatMessage
\* is dropped: roster and log keep their values and the session keeps running.
BadPayloadDropped ==
    [][\A s \in Frames : Handled(s) /\ BadPayload(s) =>
          pc' = "active" /\ users' = users /\ messages' = messages]_vars

\* The frame of the last try_send, decoded
LastSent == Envelope(tx'[Len(tx')].frame)

EmptySubmitNoOp ==
    [][Submitted /\ chat_input.value = EmptyStr =>
          tx' = tx /\ users' = users /\ messages' = messages]_vars

MessageEnvelopes(fs) ==
    Cardinality({i \in 1..Len(fs) : Envelope(fs[i]).ok /\ Envelope(fs[i]).val.message_type = "Message"})

\* C8: a submit changes neither log nor roster, whatever try_send returned, and
\* the log is never longer than the number of Message envelopes received.
NoOptimisticEcho ==
    [][/\ Submitted => users' = users /\ messages' = messages
       /\ Len(messages') <= MessageEnvelopes(frames')
      ]_vars

NoOptimisticEchoWitness ==
    /\ submits = 2
    /\ Len(tx) = 3 /\ tx[2].ok /\ ~tx[3].ok
    /\ tx[2].frame = ToStringWebSocketMessage(WebSocketMessage("Message", None, Some(Str("hi"))))
    /\ Len(messages) = 1

\* C9: no two roster entries have the same name.
RosterNamesUnique ==
    \A i, j \in 1..Len(users) : users[i].name = users[j].name => i = j

RegisterCount ==
    Cardinality({i \in 1..Len(tx) :
        Envelope(tx[i].frame).ok /\ Envelope(tx[i].frame).val.message_type = "Register"})

\* C10: construction makes one try_send of a Register envelope whose data is the
\* username and whose dataArray is absent; it is the first frame sent, sent
\* before the EventBus bridge exists and before any frame is handled; roster and
\* log are empty until a frame is handled.
RegistrationOnConstruction ==
    /\ pc = "create_send" => tx = <<>>
    /\ (~producer /\ pc # "closed") => frames = <<>> /\ submits = 0
    /\ producer => Len(tx) >= 1
    /\ pc # "create_send" =>
          /\ Len(tx) >= 1
          /\ Envelope(tx[1].frame).ok
          /\ Envelope(tx[1].frame).val = WebSocketMessage("Register", None, Some(username))
          /\ RegisterCount = 1
    /\ (producer /\ frames = <<>>) => users = <<>> /\ messages = <<>>

RegistrationWitness ==
    /\ pc = "active"
    /\ producer
    /\ submits = 1
    /\ Len(tx) = 2 /\ ~tx[1].ok /\ tx[2].ok
    /\ Len(frames) = 1

\* C11 as stated: when the Register try_send of create failed, the session still
\* runs and a Register envelope has been sent again once a submit has occurred.
RegistrationRetried ==
    (Len(tx) >= 1 /\ ~tx[1].ok /\ submits >= 1) => pc # "panicked" /\ RegisterCount >= 2

\* C11 amended: when the Register try_send of create failed, the session is still
\* created and runs (only a frame can stop it), and the registration is never
\* sent again: every later try_send carries a Message envelope.
RegistrationNotRetried ==
    (Len(tx) >= 1 /\ ~tx[1].ok) =>
        /\ frames = <<>> => pc # "panicked"
        /\ submits >= 1 => producer \/ pc = "closed"
        /\ RegisterCount = 1
        /\ Len(tx) = 1 + submits
        /\ \A i \in 2..Len(tx) :
              Envelope(tx[i].frame).ok /\ Envelope(tx[i].frame).val.message_type = "Message"

RegistrationNotRetriedWitness ==
    /\ pc = "active"
    /\ Len(tx) = 3 /\ ~tx[1].ok /\ tx[2].ok
    /\ submits = 2
    /\ Len(frames) >= 1

SubmitFrameOf(value) == ToStringWebSocketMessage(WebSocketMessage("Message", None, Some(value)))

\* C12: a submit, whether try_send accepts or rejects its frame, leaves the
\* session running and roster and log alone; it makes one try_send, of the
\* frame of the text now in the input, and clears the input, so a rejected
\* message is kept nowhere; no other step after construction sends anything.
SubmitFailureNotRetried ==
    [][/\ Submitted =>
             /\ pc' = pc /\ users' = users /\ messages' = messages
             /\ Len(tx') = Len(tx) + 1
             /\ \A i \in 1..Len(tx) : tx'[i] = tx[i]
             /\ tx'[Len(tx')].frame = SubmitFrameOf(chat_input.value)
             /\ chat_input'.value = EmptyStr
       /\ (~Submitted /\ pc # "create_send") => tx' = tx
      ]_vars

SubmitFailureWitness ==
    /\ pc = "active"
    /\ submits = 2
    /\ Len(tx) = 3
    /\ ~tx[2].ok /\ tx[2].frame = SubmitFrameOf(Str("hi"))
    /\ tx[3].ok /\ tx[3].frame = SubmitFrameOf(EmptyStr)
    /\ Len(frames) >= 1

\* C13: update returns true after every roster replacement and after every log
\* append, and false for a received Register envelope and for a submit.
ChangeNotification ==
    [][/\ users' # users => ret' = "true"
       /\ messages' # messages => ret' = "true"
       /\ \A s \in Frames :
             /\ (Handled(s) /\ Envelope(s).ok /\ Envelope(s).val.message_type = "Users")
                   => ret' = "true"
             /\ (Handled(s) /\ DecodedMessage(s)) => ret' = "true"
             /\ (Handled(s) /\ Envelope(s).ok /\ Envelope(s).val.message_type = "Register")
                   => ret' = "false"
       /\ Submitted => ret' = "false"
      ]_vars

ChangeNotificationWitness ==
    /\ Len(frames) = 2
    /\ frames[1] = FrameUsers(<<Str("a"), Str("b")>>)
    /\ frames[2] = FrameMessage(Str("a"), Str("hi"))
    /\ Len(users) = 2 /\ Len(messages) = 1
    /\ ret = "true"
    /\ submits = 1

\* The messageType written in a frame that has the envelope shape
WireKind(s) == Get(ParseDoc(s).val, Str("messageType")).str
ShapedFrames == {s \in Frames : ParseDoc(s).ok /\ EnvelopeShape(ParseDoc(s).val)}

\* C14: a received envelope whose messageType is "register" leaves roster and
\* log as they were, sends nothing and leaves the session running, whatever its
\* data and dataArray hold.
ReceivedRegisterIgnored ==
    [][\A s \in ShapedFrames : (Handled(s) /\ WireKind(s) = Str("register")) =>
          pc' = pc /\ users' = users /\ messages' = messages /\ tx' = tx]_vars

ReceivedRegisterWitness ==
    /\ pc = "active"
    /\ Len(frames) = 3
    /\ frames[1] = FrameUsers(<<Str("a"), Str("b")>>)
    /\ frames[2] = FrameRegisterFull
    /\ frames[3] = FrameRegister
    /\ Names(users) = <<Str("a"), Str("b")>>
    /\ messages = <<>>

DiceBear(name) ==
    <<W("https://avatars.dicebear.com/api/adventurer-neutral/")>> \o name \o <<W(".svg")>>
InList(name, l) == \E k \in 1..Len(l) : l[k] = name

\* C15: after every step, the avatar shown for each logged message is the avatar
\* of the entry of the current roster whose name equals the message's from, and
\* the fallback avatar when there is none; right after a Users envelope the
\* avatars of the messages already logged follow the new roster.
RosterMessageJoin ==
    [][\A i \in 1..Len(messages') :
          /\ \A k \in 1..Len(users') :
                users'[k].name = messages'[i].from => ViewAvatars'[i] = users'[k].avatar
          /\ (\A k \in 1..Len(users') : users'[k].name # messages'[i].from)
                => ViewAvatars'[i] = FallbackAvatar
          /\ \A l \in {<<Str("a"), Str("b")>>, <<Str("a"), Str("a")>>, <<>>} :
                Handled(FrameUsers(l)) =>
                   ViewAvatars'[i] = IF InList(messages'[i].from, l)
                                     THEN DiceBear(messages'[i].from)
                                     ELSE FallbackAvatar
      ]_vars

RosterMessageJoinWitness ==
    /\ Len(frames) = 3
    /\ frames[1] = FrameMessage(Str("a"), Str("hi"))
    /\ frames[2] = FrameMessage(Str("c"), Str("yo"))
    /\ frames[3] = FrameUsers(<<Str("a"), Str("b")>>)
    /\ ViewAvatars = <<DiceBear(Str("a")), FallbackAvatar>>

\* C16: after every step each roster entry's avatar is the DiceBear URL of its
\* name, so entries with the same name, in the new roster or in the roster
\* before the step, have the same avatar.
AvatarDeterminism ==
    [][/\ \A i \in 1..Len(users') : users'[i].avatar = DiceBear(users'[i].name)
       /\ \A i \in 1..Len(users'), j \in 1..Len(users') :
             users'[i].name = users'[j].name => users'[i].avatar = users'[j].avatar
       /\ \A i \in 1..Len(users'), j \in 1..Len(users) :
             users'[i].name = users[j].name => users'[i].avatar = users[j].avatar
      ]_vars

AvatarDeterminismWitness ==
    /\ Len(frames) = 3
    /\ frames[1] = FrameUsers(<<Str("a"), Str("b")>>)
    /\ frames[2] = FrameMessage(Str("c"), Str("yo"))
    /\ frames[3] = FrameUsers(<<Str("a"), Str("a")>>)
    /\ Len(users) = 2
    /\ users[1].avatar = DiceBear(Str("a")) /\ users[2].avatar = DiceBear(Str("a"))

\* C17: tearing the component down releases the EventBus bridge and takes
\* nothing back from the transport; from then on no frame is handled and roster,
\* log and the frames sent stay as they are.
TeardownReleasesBridge ==
    [][/\ pc' = "closed" => ~producer'
       /\ (pc # "closed" /\ pc' = "closed") =>
             tx' = tx /\ users' = users /\ messages' = messages /\ frames' = frames
       /\ pc = "closed" =>
             pc' = "closed" /\ frames' = frames /\ users' = users
             /\ messages' = messages /\ tx' = tx
      ]_vars

TeardownWitness ==
    /\ pc = "closed"
    /\ ~producer
    /\ Len(frames) = 2 /\ Len(users) = 2 /\ Len(messages) = 1
    /\ Len(tx) = 2 /\ tx[2].ok

\* C18: handling a Users envelope leaves the log as it was, handling a Message
\* envelope leaves the roster as it was, and neither sends a frame.
RosterLogIndependent ==
    [][\A s \in Frames : (Handled(s) /\ Envelope(s).ok) =>
          /\ Envelope(s).val.message_type = "Users" => messages' = messages /\ tx' = tx
          /\ Envelope(s).val.message_type = "Message" => users' = users /\ tx' = tx
      ]_vars

RosterLogIndependentWitness ==
    /\ Len(frames) = 3
    /\ frames[1] = FrameUsers(<<Str("a"), Str("b")>>)
    /\ frames[2] = FrameMessage(Str("a"), Str("hi"))
    /\ frames[3] = FrameUsers(<<Str("a"), Str("a")>>)
    /\ messages = <<MessageData(Str("a"), Str("hi"))>>
    /\ Names(users) = <<Str("a"), Str("a")>>
    /\ Len(tx) = 1

\* C19: a Users envelope whose dataArray is absent or null empties the roster,
\* leaves the log as it was, returns true and leaves the session running.
UsersWithoutListEmptiesRoster ==
    [][\A s \in ShapedFrames :
          (/\ Handled(s)
           /\ WireKind(s) = Str("users")
           /\ \/ ~Has(ParseDoc(s).val, Str("dataArray"))
              \/ Get(ParseDoc(s).val, Str("dataArray")).ty = "null")
          => users' = <<>> /\ messages' = messages /\ ret' = "true" /\ pc' = pc
      ]_vars

UsersWithoutListWitness ==
    /\ pc = "active"
    /\ Len(frames) = 3
    /\ frames[1] = FrameUsers(<<Str("a"), Str("b")>>)
    /\ frames[2] = FrameMessage(Str("a"), Str("hi"))
    /\ frames[3] \in {FrameUsersNoArray, FrameUsersNull}
    /\ users = <<>>
    /\ Len(messages) = 1
    /\ ret = "true"

====
